---------------------------- MODULE Spec2Model ----------------------------
(***************************************************************************)
(* A model of libdns-rs: the RecordData codec of src/lib.rs and the        *)
(* Hetzner binding of src/hetzner/mod.rs over the HTTP client of           *)
(* src/hetzner/api.rs.                                                     *)
(*                                                                         *)
(* Strings whose characters the code inspects (record values) are          *)
(* sequences of one-character strings; strings the code only compares or   *)
(* passes on (type tags, hosts) are TLA+ strings; IDs are numbers.         *)
(***************************************************************************)
EXTENDS Integers, Sequences, FiniteSets, TLC

(***************************************************************************)
(* PART 1.  The RecordData codec (src/lib.rs)                              *)
(***************************************************************************)

\* Option::None, and a parse that failed.
None == [ok |-> FALSE]

\* Option::Some(v)
Some(v) == [ok |-> TRUE, val |-> v]

\* char::to_digit(10): the value of a decimal digit, -1 for any other char.
Digit10(c) ==
    CASE c = "0" -> 0 [] c = "1" -> 1 [] c = "2" -> 2 [] c = "3" -> 3
      [] c = "4" -> 4 [] c = "5" -> 5 [] c = "6" -> 6 [] c = "7" -> 7
      [] c = "8" -> 8 [] c = "9" -> 9 [] OTHER -> -1

\* char::to_digit(16): hexadecimal digits of either case.
Digit16(c) ==
    CASE c = "a" -> 10 [] c = "b" -> 11 [] c = "c" -> 12 [] c = "d" -> 13
      [] c = "e" -> 14 [] c = "f" -> 15 [] c = "A" -> 10 [] c = "B" -> 11
      [] c = "C" -> 12 [] c = "D" -> 13 [] c = "E" -> 14 [] c = "F" -> 15
      [] OTHER -> Digit10(c)

DigitOf(c, radix) == IF radix = 16 THEN Digit16(c) ELSE Digit10(c)

DecChars == <<"0", "1", "2", "3", "4", "5", "6", "7", "8", "9">>
HexChars == DecChars \o <<"a", "b", "c", "d", "e", "f">>

\* The characters char::is_whitespace accepts, among those the model uses.
IsWhitespace(c) == c \in {" ", "\t"}

\* str::split_whitespace: the maximal runs of non-whitespace characters.
RECURSIVE SplitFrom(_, _, _, _)
SplitFrom(s, i, cur, acc) ==
    IF i > Len(s)
    THEN IF cur = <<>> THEN acc ELSE Append(acc, cur)
    ELSE IF IsWhitespace(s[i])
         THEN SplitFrom(s, i + 1, <<>>, IF cur = <<>> THEN acc ELSE Append(acc, cur))
         ELSE SplitFrom(s, i + 1, Append(cur, s[i]), acc)

SplitWhitespace(s) == SplitFrom(s, 1, <<>>, <<>>)

\* The largest u16.
U16Max == 65535

\* Option::Some(v) of a number that is not the failure mark -1.
SomeNat(v) == IF v < 0 THEN None ELSE Some(v)

\* The digits of tok from its i-th on, folded left to right onto acc with
\* checked arithmetic: -1 on a character that is no digit of the radix, or
\* once the value passes max.
RECURSIVE Fold(_, _, _, _, _)
Fold(tok, i, acc, radix, max) ==
    IF i > Len(tok) THEN acc
    ELSE IF DigitOf(tok[i], radix) < 0 \/ acc * radix + DigitOf(tok[i], radix) > max
         THEN -1
         ELSE Fold(tok, i + 1, acc * radix + DigitOf(tok[i], radix), radix, max)

\* The digits of str::parse::<u16>, after its sign: at least one.
U16Digits(body) == IF Len(body) = 0 THEN None ELSE SomeNat(Fold(body, 1, 0, 10, U16Max))

\* str::parse::<u16>: an optional "+", then one or more decimal digits whose
\* value fits 16 bits.
ParseU16(tok) ==
    U16Digits(IF Len(tok) > 0 /\ tok[1] = "+" THEN Tail(tok) ELSE tok)

\* Display of an unsigned integer in the given radix: no sign, no leading
\* zeros, lower-case digits.
RECURSIVE NatToStr(_, _)
NatToStr(n, radix) ==
    IF n < radix THEN <<HexChars[n + 1]>>
    ELSE Append(NatToStr(n \div radix, radix), HexChars[(n % radix) + 1])

\* The places of s that cut it into pieces: before it, after it, and where
\* sep stands.
Cuts(s, sep) == {0, Len(s) + 1} \cup {i \in DOMAIN s : s[i] = sep}

\* The k-th smallest member of a set of numbers.
Kth(at, k) == CHOOSE p \in at : Cardinality({q \in at : q < p}) = k - 1

\* The pieces of s between the cuts, empty pieces included.
Pieces(s, at) ==
    [k \in 1..(Cardinality(at) - 1) |-> SubSeq(s, Kth(at, k) + 1, Kth(at, k + 1) - 1)]

\* The pieces of s between the occurrences of sep.
Split(s, sep) == Pieces(s, Cuts(s, sep))

\* One octet of a dotted quad, as std's Parser::read_number(10, Some(3),
\* false) reads it into a u8: one to three digits, no zero before another
\* digit, at most 255; -1 otherwise.
Octet(tok) ==
    IF Len(tok) = 0 \/ Len(tok) > 3 \/ (Len(tok) > 1 /\ tok[1] = "0")
    THEN -1
    ELSE Fold(tok, 1, 0, 10, 255)

\* One group of an IPv6 address, as read_number(16, Some(4), true) reads
\* it: one to four hex digits; -1 otherwise.
Group(tok) ==
    IF Len(tok) = 0 \/ Len(tok) > 4 THEN -1 ELSE Fold(tok, 1, 0, 16, U16Max)

\* Four octets.
Quad(toks) ==
    IF Len(toks) = 4 /\ \A i \in 1..4 : Octet(toks[i]) >= 0
    THEN Some([i \in 1..4 |-> Octet(toks[i])])
    ELSE None

\* std's Parser::read_ipv4_addr over a whole string: four octets joined by
\* dots.
ReadIpv4(s) == Quad(Split(s, "."))

\* The longest textual form of an IPv4 address.
Ipv4MaxLen == 15

\* Ipv4Addr::from_str
ParseIpv4(s) == IF Len(s) > Ipv4MaxLen THEN None ELSE ReadIpv4(s)

\* Display of Ipv4Addr.
Ipv4ToString(a) ==
    NatToStr(a[1], 10) \o <<".">> \o NatToStr(a[2], 10) \o <<".">>
      \o NatToStr(a[3], 10) \o <<".">> \o NatToStr(a[4], 10)

\* The two groups an embedded IPv4 address stands for, none when there is
\* no such address.
Ipv4Groups(v4) ==
    IF v4.ok
    THEN <<v4.val[1] * 256 + v4.val[2], v4.val[3] * 256 + v4.val[4]>>
    ELSE <<>>

\* The first n pieces as groups, then the groups of the embedded address.
GroupsWith(toks, n, v4) ==
    IF \E i \in 1..n : Group(toks[i]) < 0 THEN None
    ELSE [ok |-> TRUE, ipv4 |-> v4.ok,
          val |-> [i \in 1..n |-> Group(toks[i])] \o Ipv4Groups(v4)]

\* Pieces of which the last may be an embedded IPv4 address.
GroupsEndingIn(toks, v4) ==
    GroupsWith(toks, IF v4.ok THEN Len(toks) - 1 ELSE Len(toks), v4)

GroupsOf(toks) ==
    GroupsEndingIn(toks, IF Len(toks) > 0 THEN ReadIpv4(toks[Len(toks)]) ELSE None)

\* read_groups inside std's Parser::read_ipv6_addr, over a whole string:
\* 16-bit groups joined by colons, the last possibly an embedded IPv4
\* address that counts as two groups.  None when the string is not that.
ReadGroups(s) == GroupsOf(IF s = <<>> THEN <<>> ELSE Split(s, ":"))

Zeros(n) == [k \in 1..n |-> 0]

\* The head and the tail of an IPv6 address around its "::", which stands
\* for at least one zero group; the head holds no IPv4 address.
Ipv6Parts(head, tail) ==
    IF ~head.ok \/ ~tail.ok \/ head.ipv4 \/ Len(head.val) + Len(tail.val) > 7
    THEN None
    ELSE Some(head.val \o Zeros(8 - Len(head.val) - Len(tail.val)) \o tail.val)

\* Eight groups with no "::" among them.
Ipv6Whole(groups) ==
    IF groups.ok /\ Len(groups.val) = 8 THEN Some(groups.val) ELSE None

\* Where s has two colons in a row.
DoubleColons(s) == {i \in 1..(Len(s) - 1) : s[i] = ":" /\ s[i + 1] = ":"}

\* An address cut at the "::" that starts at place at.
Ipv6Around(s, at) ==
    Ipv6Parts(ReadGroups(SubSeq(s, 1, at - 1)), ReadGroups(SubSeq(s, at + 2, Len(s))))

\* Ipv6Addr::from_str: eight groups, or a head and a tail around the first
\* "::"; an embedded IPv4 address may only end the address.
ParseIpv6(s) ==
    IF DoubleColons(s) = {} THEN Ipv6Whole(ReadGroups(s))
    ELSE Ipv6Around(s, Kth(DoubleColons(s), 1))

\* The length of the run of zero groups of a that starts at i.
RECURSIVE ZeroRun(_, _)
ZeroRun(a, i) == IF i > Len(a) \/ a[i] # 0 THEN 0 ELSE 1 + ZeroRun(a, i + 1)

\* Groups in lower-case hex joined by colons.
RECURSIVE FmtGroups(_)
FmtGroups(gs) ==
    IF gs = <<>> THEN <<>>
    ELSE IF Len(gs) = 1 THEN NatToStr(gs[1], 16)
    ELSE NatToStr(gs[1], 16) \o <<":">> \o FmtGroups(Tail(gs))

\* Where the first longest run of zero groups of a starts.
LongestZeroRun(a) ==
    CHOOSE i \in 1..8 :
      /\ \A j \in 1..8 : ZeroRun(a, j) <= ZeroRun(a, i)
      /\ \A j \in 1..(i - 1) : ZeroRun(a, j) < ZeroRun(a, i)

\* a with its n groups from at on written as "::", when n is two or more.
Compressed(a, at, n) ==
    IF n > 1
    THEN FmtGroups(SubSeq(a, 1, at - 1)) \o <<":", ":">> \o FmtGroups(SubSeq(a, at + n, 8))
    ELSE FmtGroups(a)

\* How Display writes the run of zero groups that starts at at.
CompressedAt(a, at) == Compressed(a, at, ZeroRun(a, at))

\* Display of Ipv6Addr: "::ffff:a.b.c.d" for an IPv4-mapped address;
\* otherwise the first longest run of two or more zero groups becomes "::".
Ipv6ToString(a) ==
    IF SubSeq(a, 1, 5) = Zeros(5) /\ a[6] = 65535
    THEN <<":", ":", "f", "f", "f", "f", ":">>
           \o Ipv4ToString(<<a[7] \div 256, a[7] % 256, a[8] \div 256, a[8] % 256>>)
    ELSE CompressedAt(a, LongestZeroRun(a))

\* RecordData::Other { typ, value }
Other(typ, value) == [tag |-> "Other", typ |-> typ, value |-> value]

\* Option::map(|addr| RecordData::A(addr)), and the same for AAAA.
MapAddr(tag, r) == IF r.ok THEN Some([tag |-> tag, addr |-> r.val]) ELSE None

\* iter.next(): the n-th token, if there is one.
NextToken(toks, n) == IF Len(toks) >= n THEN Some(toks[n]) ELSE None

\* .and_then(|raw| raw.parse::<u16>().ok())
AndThenU16(raw) == IF raw.ok THEN ParseU16(raw.val) ELSE None

\* The if of the "MX" arm.
MXData(priority, server) ==
    IF ~priority.ok \/ ~server.ok THEN None
    ELSE Some([tag |-> "MX", priority |-> priority.val, mail_server |-> server.val])

\* The "MX" arm of RecordData::from_raw: the first two whitespace-separated
\* tokens; the iterator is not asked for a third.
FromRawMX(toks) == MXData(AndThenU16(NextToken(toks, 1)), NextToken(toks, 2))

\* The if of the "SRV" arm.
SRVData(priority, weight, port, target) ==
    IF ~priority.ok \/ ~weight.ok \/ ~port.ok \/ ~target.ok THEN None
    ELSE Some([tag |-> "SRV", priority |-> priority.val, weight |-> weight.val,
               port |-> port.val, target |-> target.val])

\* The "SRV" arm of RecordData::from_raw: the first four tokens.
FromRawSRV(toks) ==
    SRVData(AndThenU16(NextToken(toks, 1)), AndThenU16(NextToken(toks, 2)),
            AndThenU16(NextToken(toks, 3)), NextToken(toks, 4))

\* The match of RecordData::from_raw.
FromRawMatch(typ, value) ==
    CASE typ = "A" -> MapAddr("A", ParseIpv4(value))
      [] typ = "AAAA" -> MapAddr("AAAA", ParseIpv6(value))
      [] typ = "CNAME" -> Some([tag |-> "CNAME", v |-> value])
      [] typ = "MX" -> FromRawMX(SplitWhitespace(value))
      [] typ = "NS" -> Some([tag |-> "NS", v |-> value])
      [] typ = "SRV" -> FromRawSRV(SplitWhitespace(value))
      [] typ = "TXT" -> Some([tag |-> "TXT", v |-> value])
      [] OTHER -> None

\* Option::unwrap_or
UnwrapOr(data, default) == IF data.ok THEN data.val ELSE default

\* RecordData::from_raw
from_raw(typ, value) == UnwrapOr(FromRawMatch(typ, value), Other(typ, value))

\* RecordData::get_type.  The AAAA arm returns "A", as the source does.
get_type(x) ==
    CASE x.tag = "A" -> "A"
      [] x.tag = "AAAA" -> "A"
      [] x.tag = "CNAME" -> "CNAME"
      [] x.tag = "MX" -> "MX"
      [] x.tag = "NS" -> "NS"
      [] x.tag = "SRV" -> "SRV"
      [] x.tag = "TXT" -> "TXT"
      [] OTHER -> x.typ

\* RecordData::get_value
get_value(x) ==
    CASE x.tag = "A" -> Ipv4ToString(x.addr)
      [] x.tag = "AAAA" -> Ipv6ToString(x.addr)
      [] x.tag = "MX" -> NatToStr(x.priority, 10) \o <<" ">> \o x.mail_server
      [] x.tag = "SRV" -> NatToStr(x.priority, 10) \o <<" ">>
                            \o NatToStr(x.weight, 10) \o <<" ">>
                            \o NatToStr(x.port, 10) \o <<" ">> \o x.target
      [] x.tag = "Other" -> x.value
      [] OTHER -> x.v


(***************************************************************************)
(* PART 2.  The remote DNS API, as the binding sees it                     *)
(*                                                                         *)
(* The remote holds the zones and the records, each collection in a fixed  *)
(* order, and answers one request at a time.  Other clients may change it  *)
(* between two requests of this one.                                       *)
(***************************************************************************)

VARIABLES
    zones,      \* the remote's zones: their IDs, in the remote's order
    records,    \* the remote's records: their IDs, in the remote's order
    made,       \* the zones and records created since the start, by ID
    nextId,     \* the ID the remote gives the next zone or record it creates
    changes,    \* how many times the remote's contents have changed
    pc,         \* where the caller's one call is: "idle", or the await it is at
    call,       \* the locals of the call in flight
    log,        \* the requests the current (or last) call has sent, in order
    result,     \* what the last call that returned gave its caller
    zone,       \* the HetznerZone the caller works on, None for a caller
                \* that works on the provider
    changed,    \* whether the remote changed since the current call started
    inTyp,      \* codec: the type tag given to from_raw
    inValue,    \* codec: the value given to from_raw
    parsed,     \* codec: from_raw(inTyp, inValue)
    wire,       \* codec: the pair (get_type, get_value) of parsed
    reparsed,   \* codec: from_raw of that pair
    codecPc     \* codec: which of these steps have been taken

remoteVars == <<zones, records, made, nextId, changes>>
callerVars == <<pc, call, log, result, zone, changed>>
codecVars == <<inTyp, inValue, parsed, wire, reparsed, codecPc>>
vars == <<remoteVars, callerVars, codecVars>>

\* The page size list_zones asks for.
ZonesPerPage == 100

\* The page size list_records asks for.
RecordsPerPage == 100

\* The largest collection the remote starts with.
MaxEntries == 250

\* How many times the remote's contents may change.
MaxChanges == 1

\* The last page a list call may ask for before the model stops following it.
MaxPage == 4

Min(a, b) == IF a < b THEN a ELSE b

\* The (type, value) pairs the remote's records carry, in rotation.
WireSamples ==
    << <<"A", <<"1", ".", "2", ".", "3", ".", "4">> >>,
       <<"MX", <<"1", "0", " ", "m">> >>,
       <<"AAAA", <<":", ":", "1">> >>,
       <<"TXT", <<"a", " ", "b">> >>,
       <<"CAA", <<"0">> >>,
       <<"MX", <<"b", "a", "d">> >> >>

\* The default TTL of the zone with this ID.
ZoneTtl(id) == IF id % 2 = 1 THEN 3600 ELSE 300

\* api::Zone (its status, which the binding never reads, left out).
ApiZone(id, name) == [id |-> id, name |-> name, ttl |-> ZoneTtl(id)]

\* api::Record; ttl is an Option.
ApiRecord(id, zone_id, name, typ, value, ttl) ==
    [id |-> id, zone_id |-> zone_id, name |-> name, typ |-> typ,
     value |-> value, ttl |-> ttl]

\* A record as the remote may hold it under this ID: every third one has
\* no TTL of its own.
SampleOf(id, zone_id, wired) ==
    ApiRecord(id, zone_id, "www", wired[1], wired[2],
              IF id % 3 = 0 THEN None ELSE Some(60 * (id % 3)))

SampleRecord(id, zone_id) ==
    SampleOf(id, zone_id, WireSamples[(id % Len(WireSamples)) + 1])

\* The zone the remote holds under this ID.
ZoneAt(m, id) == IF id \in DOMAIN m THEN m[id] ELSE ApiZone(id, "example.com")

\* The record the remote holds under this ID: of those it starts with,
\* record 1 is in zone 2 and every other one in zone 1.
RecordAt(m, id) ==
    IF id \in DOMAIN m THEN m[id] ELSE SampleRecord(id, IF id = 1 THEN 2 ELSE 1)

\* The sizes the remote's collections start with: empty, one entry, one
\* full page, one entry more, and MaxEntries.
Counts == {0, 1, ZonesPerPage, ZonesPerPage + 1, MaxEntries}

\* The IDs of the records of one zone, in the remote's order.
RecordsOf(m, recs, zone_id) ==
    SelectSeq(recs, LAMBDA id : RecordAt(m, id).zone_id = zone_id)

\* One page of a collection: entries (page-1)*per_page+1 .. page*per_page,
\* as far as they exist.
PageOf(coll, page, per_page) ==
    SubSeq(coll, (page - 1) * per_page + 1, Min(page * per_page, Len(coll)))

\* What the environment does with one request: the remote serves it, the
\* connection fails, or the remote answers with an error status.
Injections == {"connect", "s401", "s403", "s404", "s500", "serve"}

StatusOf(inj) ==
    CASE inj = "s401" -> 401 [] inj = "s403" -> 403 [] inj = "s404" -> 404
      [] inj = "s500" -> 500 [] OTHER -> 200

\* An HTTP response; sent = FALSE stands for a request that got none.  An
\* error status comes with the API's error envelope, which has none of the
\* fields of the payload the client asked for.
NoResponse == [sent |-> FALSE, status |-> 0, body |-> [shape |-> "none"]]
ErrorResponse(status) ==
    [sent |-> TRUE, status |-> status, body |-> [shape |-> "error"]]
OkResponse(body) == [sent |-> TRUE, status |-> 200, body |-> body]

\* The answer to a request the remote does not serve.
Injected(inj) ==
    IF inj = "connect" THEN NoResponse ELSE ErrorResponse(StatusOf(inj))

\* Removal of an ID from a sequence of IDs.
WithoutId(coll, id) == SelectSeq(coll, LAMBDA x : x # id)

HasId(coll, id) == \E i \in DOMAIN coll : coll[i] = id

\* GET /zones?page=&per_page=
ZonesPage(m, ids, total) ==
    OkResponse([shape |-> "zones",
                zones |-> [i \in DOMAIN ids |-> ZoneAt(m, ids[i])],
                total_entries |-> total])

AnswerZones(m, zs, page, per_page, inj) ==
    IF inj # "serve" THEN Injected(inj)
    ELSE ZonesPage(m, PageOf(zs, page, per_page), Len(zs))

\* GET /zones/{id}
AnswerZone(m, zs, zone_id, inj) ==
    IF inj # "serve" THEN Injected(inj)
    ELSE IF HasId(zs, zone_id)
         THEN OkResponse([shape |-> "zone", zone |-> ZoneAt(m, zone_id)])
         ELSE ErrorResponse(404)

\* The domain names the remote accepts for a new zone.
ValidDomains == {"example.org"}

\* POST /zones
AnswerCreateZone(id, domain, inj) ==
    IF inj # "serve" THEN Injected(inj)
    ELSE IF domain \in ValidDomains
         THEN OkResponse([shape |-> "zone", zone |-> ApiZone(id, domain)])
         ELSE ErrorResponse(422)

\* DELETE /zones/{id} and DELETE /records/{id}
AnswerDelete(coll, id, inj) ==
    IF inj # "serve" THEN Injected(inj)
    ELSE IF HasId(coll, id) THEN OkResponse([shape |-> "empty"])
         ELSE ErrorResponse(404)

\* GET /records?zone_id=&page=&per_page=
RecordsPage(m, ids, total) ==
    OkResponse([shape |-> "records",
                records |-> [i \in DOMAIN ids |-> RecordAt(m, ids[i])],
                total_entries |-> total])

RecordsPageOf(m, mine, page, per_page) ==
    RecordsPage(m, PageOf(mine, page, per_page), Len(mine))

AnswerRecords(m, recs, zone_id, page, per_page, inj) ==
    IF inj # "serve" THEN Injected(inj)
    ELSE RecordsPageOf(m, RecordsOf(m, recs, zone_id), page, per_page)

\* GET /records/{id}
AnswerRecord(m, recs, record_id, inj) ==
    IF inj # "serve" THEN Injected(inj)
    ELSE IF HasId(recs, record_id)
         THEN OkResponse([shape |-> "record", record |-> RecordAt(m, record_id)])
         ELSE ErrorResponse(404)

\* POST /records: the remote stores what the body carries, the ttl read
\* from its decimal digits, and answers with the record; a zone it does not
\* know is a 422.
AnswerCreateRecord(zs, id, body, inj) ==
    IF inj # "serve" THEN Injected(inj)
    ELSE IF HasId(zs, body.zone_id)
         THEN OkResponse([shape |-> "record",
                          record |-> ApiRecord(id, body.zone_id, body.name,
                                               body.type, body.value,
                                               IF body.ttl.ok
                                               THEN SomeNat(Fold(body.ttl.val, 1, 0, 10,
                                                                 2147483647))
                                               ELSE None)])
         ELSE ErrorResponse(422)

\* The remote's table of created entries with one more.
With(m, id, entry) == [k \in DOMAIN m \cup {id} |-> IF k = id THEN entry ELSE m[k]]

Served(resp) == resp.sent /\ resp.status = 200

(***************************************************************************)
(* PART 3.  The HTTP client (src/hetzner/api.rs)                           *)
(*                                                                         *)
(* reqwest::Error is modelled by its kind and status.  send() resolves to  *)
(* Ok(Response) for a response of ANY status and to an error only when no  *)
(* response arrived; an error of kind "status", the one is_status()        *)
(* recognizes, is made by Response::error_for_status alone, which api.rs   *)
(* never calls.  json() fails with a "decode" error when the body is not   *)
(* the payload asked for.                                                  *)
(***************************************************************************)

Ok(v) == [kind |-> "Ok", val |-> v]
Err(e) == [kind |-> "Err", err |-> e]
IsOk(r) == r.kind = "Ok"

RequestError == [kind |-> "request", status |-> None]
DecodeError == [kind |-> "decode", status |-> None]

\* reqwest::Error::is_status
is_status(err) == err.kind = "status"

\* RequestBuilder::send().await
Send(resp) == IF resp.sent THEN Ok(resp) ELSE Err(RequestError)

\* Response::json::<T>().await, T named by the shape of its payload
Json(resp, shape) ==
    IF resp.body.shape = shape THEN Ok(resp.body) ELSE Err(DecodeError)

\* Result::map
MapOk(r, F(_)) == IF IsOk(r) THEN Ok(F(r.val)) ELSE r

\* sent?.json().await
JsonOf(sent, shape) == IF IsOk(sent) THEN Json(sent.val, shape) ELSE sent

\* send().await?.json().await
SendJson(resp, shape) == JsonOf(Send(resp), shape)

\* The unit value ().
Unit == <<>>

\* send().await.map(|_| ())
SendUnit(resp) == MapOk(Send(resp), LAMBDA response : Unit)

\* Client::retrieve_zones
api_retrieve_zones(resp) == SendJson(resp, "zones")

\* Client::retrieve_zone
api_retrieve_zone(resp) == SendJson(resp, "zone")

\* Client::create_zone
api_create_zone(resp) == SendJson(resp, "zone")

\* Client::delete_zone
api_delete_zone(resp) == SendUnit(resp)

\* Client::retrieve_records
api_retrieve_records(resp) == SendJson(resp, "records")

\* Client::retrieve_record
api_retrieve_record(resp) == SendJson(resp, "record")

\* The body Client::create_record posts, a map of strings: ttl only when it
\* is Some, as ttl.to_string().
CreateRecordBody(zone_id, host, typ, value, ttl) ==
    [zone_id |-> zone_id, name |-> host, type |-> typ, value |-> value,
     ttl |-> IF ttl.ok THEN Some(NatToStr(ttl.val, 10)) ELSE None]

\* Client::create_record
api_create_record(resp) == SendJson(resp, "record")

\* Client::delete_record
api_delete_record(resp) == SendUnit(resp)

(***************************************************************************)
(* PART 4.  The binding (src/hetzner/mod.rs)                               *)
(***************************************************************************)

\* The well-known error kinds, and Custom(err).
Known(name) == [name |-> name, cause |-> None]
Custom(err) == [name |-> "Custom", cause |-> Some(err)]

\* map_err applied to a Result
MapErr(r, F(_)) == IF IsOk(r) THEN r ELSE Err(F(r.err))

\* The closure of get_zone
GetZoneError(err) ==
    IF is_status(err)
    THEN CASE err.status = Some(404) -> Known("NotFound")
           [] err.status = Some(401) -> Known("Unauthorized")
           [] OTHER -> Custom(err)
    ELSE Custom(err)

\* The closure of list_zones
ListZonesError(err) ==
    IF is_status(err)
    THEN CASE err.status = Some(404) -> Known("NotFound")
           [] err.status \in {Some(401), Some(403)} -> Known("Unauthorized")
           [] OTHER -> Custom(err)
    ELSE Custom(err)

\* The closure of create_zone
CreateZoneError(err) ==
    IF is_status(err)
    THEN CASE err.status = Some(401) -> Known("Unauthorized")
           [] err.status = Some(422) -> Known("InvalidDomainName")
           [] OTHER -> Custom(err)
    ELSE Custom(err)

\* The closure of delete_zone
DeleteZoneError(err) ==
    IF is_status(err)
    THEN CASE err.status = Some(404) -> Known("NotFound")
           [] err.status = Some(401) -> Known("Unauthorized")
           [] OTHER -> Custom(err)
    ELSE Custom(err)

\* The closure of list_records
ListRecordsError(err) ==
    IF is_status(err)
    THEN CASE err.status = Some(404) -> Known("NotFound")
           [] err.status \in {Some(401), Some(403)} -> Known("Unauthorized")
           [] OTHER -> Custom(err)
    ELSE Custom(err)

\* The closure of get_record
GetRecordError(err) ==
    IF is_status(err)
    THEN CASE err.status = Some(404) -> Known("NotFound")
           [] err.status = Some(401) -> Known("Unauthorized")
           [] OTHER -> Custom(err)
    ELSE Custom(err)

\* The closure of create_record
CreateRecordError(err) ==
    IF is_status(err)
    THEN CASE err.status = Some(401) -> Known("Unauthorized")
           [] err.status = Some(422) -> Known("InvalidRecord")
           [] OTHER -> Custom(err)
    ELSE Custom(err)

\* A closure that reports every failure of the get_record as NotFound.
AllNotFound(e) == Known("NotFound")

\* The first closure of delete_record: RetrieveRecordError to
\* DeleteRecordError, kind by kind.
DeleteRecordGetError(e) ==
    CASE e.name = "Unauthorized" -> Known("Unauthorized")
      [] e.name = "NotFound" -> Known("NotFound")
      [] OTHER -> Custom(e.cause.val)

\* The second closure of delete_record
DeleteRecordError(err) ==
    IF is_status(err)
    THEN CASE err.status = Some(404) -> Known("NotFound")
           [] err.status = Some(401) -> Known("Unauthorized")
           [] OTHER -> Custom(err)
    ELSE Custom(err)

SUPPORTED_RECORD_TYPES ==
    {"A", "AAAA", "NS", "MX", "CNAME", "RP", "TXT", "SOA", "HINFO", "SRV",
     "DANE", "TLSA", "DS", "CAA"}

\* A check that lets every type through.
AnySupported(typ) == TRUE

\* SUPPORTED_RECORD_TYPES.iter().any(|r| *r == typ)
IsSupported(typ) == typ \in SUPPORTED_RECORD_TYPES

\* HetznerZone { api_client, repr }: the client is shared and never changes.
HetznerZone(repr) == [repr |-> repr]

\* lib.rs Record
Record(id, host, data, ttl) == [id |-> id, host |-> host, data |-> data, ttl |-> ttl]

\* A conversion that gives every record the zone's default TTL.
DefaultTtlOnly(rec, default_ttl) ==
    Record(rec.id, rec.name, from_raw(rec.typ, rec.value), default_ttl)

\* api::Record::into_generic
into_generic(rec, default_ttl) ==
    Record(rec.id, rec.name, from_raw(rec.typ, rec.value),
           IF rec.ttl.ok THEN rec.ttl.val ELSE default_ttl)

\* A loop that never sees its total reached.
NeverDone(total, len) == FALSE

\* total.is_some_and(|t| len == t)
ListDone(total, len) == total.ok /\ len = total.val

\* A loop that skips every other page.
SkipPage(page) == page + 2

\* page += 1
NextPage(page) == page + 1

\* A loop that takes the total of every page.
LatestTotal(total, total_entries) == Some(total_entries)

\* if total.is_none() { total = Some(total_entries) }
FirstTotal(total, total_entries) ==
    IF ~total.ok THEN Some(total_entries) ELSE total

\* A handle that takes every record for one of its zone.
NeverForeign(rec, self) == FALSE

\* response.record.zone_id != self.repr.id
ForeignRecord(rec, self) == rec.zone_id # self.repr.id

\* Provider::get_zone, given the remote's answer.
get_zone(resp) ==
    MapOk(MapErr(api_retrieve_zone(resp), GetZoneError),
          LAMBDA response : HetznerZone(response.zone))

\* CreateZone::create_zone, given the remote's answer.
create_zone(resp) ==
    MapOk(MapErr(api_create_zone(resp), CreateZoneError),
          LAMBDA response : HetznerZone(response.zone))

\* DeleteZone::delete_zone, given the remote's answer.
delete_zone(resp) == MapErr(api_delete_zone(resp), DeleteZoneError)

\* Zone::get_record from the ? on: the check of the record's zone.
GetRecordCheck(self, response) ==
    IF ~IsOk(response) THEN response
    ELSE IF ForeignRecord(response.val.record, self) THEN Err(Known("NotFound"))
    ELSE Ok(into_generic(response.val.record, self.repr.ttl))

\* Zone::get_record on the zone handle self, given the remote's answer.
get_record(self, resp) ==
    GetRecordCheck(self, MapErr(api_retrieve_record(resp), GetRecordError))

\* CreateRecord::create_record from its request on, given the remote's
\* answer.
create_record(self, resp) ==
    MapOk(MapErr(api_create_record(resp), CreateRecordError),
          LAMBDA response : into_generic(response.record, self.repr.ttl))

\* A request that always carries the ttl.
AlwaysTtl(ttl, self) == Some(ttl)

\* let mut opt_ttl = None; if ttl != self.repr.ttl { opt_ttl = Some(ttl) }
OptTtl(ttl, self) == IF ttl # self.repr.ttl THEN Some(ttl) ELSE None

(***************************************************************************)
(* PART 5.  The caller's calls, one action per await                       *)
(*                                                                         *)
(* A run follows one caller: one that works on the provider (Provider,     *)
(* CreateZone, DeleteZone) or one that works on a zone handle it got from  *)
(* the provider before (Zone, CreateRecord, DeleteRecord).  The other      *)
(* clients' changes to the remote are followed where a call can see them:  *)
(* between two requests of one call, zones for the first caller, records   *)
(* for the second.  A change between two calls only gives the next call    *)
(* another remote to start from.                                           *)
(***************************************************************************)

\* No call in flight.
NoCall == [op |-> "none"]

\* One request as the log keeps it: what was asked and what status came back.
Sent(req, args, resp) ==
    [req |-> req, args |-> args, sent |-> resp.sent, status |-> resp.status]

\* What a call gave its caller.
Returned(op, args, res) == [op |-> op, args |-> args, res |-> res]

\* The arguments the caller uses.
ZoneIdArgs == {1, 2}
RecordIdArgs == {0, 1, 2}
DomainArgs == {"example.org", "not a domain"}
HostArgs == {"www"}
TtlArgs == {ZoneTtl(1), 120}
DataArgs ==
    { [tag |-> "A", addr |-> <<1, 2, 3, 4>>],
      [tag |-> "AAAA", addr |-> <<0, 0, 0, 0, 0, 0, 0, 1>>],
      [tag |-> "MX", priority |-> 10, mail_server |-> <<"m">>],
      Other("URI", <<"x">>) }

\* A loop that takes every error for the end of the pages.
AnyErrorEnds(err) == TRUE

\* if let RetrieveZoneError::NotFound = err { break }
EndOfPages(err) == err.name = "NotFound"

\* A call returns: its locals are dropped.
Return(r) ==
    /\ pc' = "idle"
    /\ call' = NoCall
    /\ result' = r

\* Provider::get_zone
GetZoneWith(zone_id, resp) ==
    /\ log' = <<Sent("retrieve_zone", <<zone_id>>, resp)>>
    /\ Return(Returned("get_zone", <<zone_id>>, get_zone(resp)))

GetZone ==
    /\ pc = "idle" /\ zone = None
    /\ \E zone_id \in ZoneIdArgs, inj \in Injections :
         GetZoneWith(zone_id, AnswerZone(made, zones, zone_id, inj))
    /\ changed' = FALSE
    /\ UNCHANGED <<zone, remoteVars, codecVars>>

\* Provider::list_zones up to its loop
ListZonesStart ==
    /\ pc = "idle" /\ zone = None
    /\ pc' = "list_zones"
    /\ call' = [op |-> "list_zones", zones |-> <<>>, total |-> None, page |-> 1]
    /\ log' = <<>>
    /\ changed' = FALSE
    /\ UNCHANGED <<result, zone, remoteVars, codecVars>>

\* The end of a turn of the loop of list_zones: break, or page += 1.
ListZonesTurnEnd(total, zs) ==
    IF ListDone(total, Len(zs))
    THEN Return(Returned("list_zones", <<>>, Ok(zs)))
    ELSE /\ call' = [call EXCEPT !.zones = zs, !.total = total,
                                 !.page = NextPage(call.page)]
         /\ UNCHANGED <<pc, result>>

\* The match of the loop of list_zones.
ListZonesMatch(r) ==
    IF IsOk(r)
    THEN ListZonesTurnEnd(FirstTotal(call.total, r.val.total_entries),
                          call.zones
                            \o [i \in DOMAIN r.val.zones |-> HetznerZone(r.val.zones[i])])
    ELSE IF EndOfPages(r.err)
         THEN Return(Returned("list_zones", <<>>, Ok(call.zones)))
         ELSE Return(Returned("list_zones", <<>>, r))

ListZonesWith(resp) ==
    /\ log' = Append(log, Sent("retrieve_zones", <<call.page, ZonesPerPage>>, resp))
    /\ ListZonesMatch(MapErr(api_retrieve_zones(resp), ListZonesError))

\* One turn of the loop of list_zones: the fetch of a page, and what the
\* loop does with its outcome.
ListZonesPage ==
    /\ pc = "list_zones"
    /\ call.page <= MaxPage
    /\ \E inj \in Injections :
         ListZonesWith(AnswerZones(made, zones, call.page, ZonesPerPage, inj))
    /\ UNCHANGED <<zone, changed, remoteVars, codecVars>>

\* CreateZone::create_zone
CreateZoneWith(domain, resp) ==
    /\ Served(resp) => changes < MaxChanges
    /\ log' = <<Sent("create_zone", <<domain>>, resp)>>
    /\ Return(Returned("create_zone", <<domain>>, create_zone(resp)))
    /\ IF Served(resp)
       THEN /\ zones' = Append(zones, nextId)
            /\ made' = With(made, nextId, resp.body.zone)
            /\ nextId' = nextId + 1
            /\ changes' = changes + 1
       ELSE UNCHANGED <<zones, made, nextId, changes>>

CreateZone ==
    /\ pc = "idle" /\ zone = None
    /\ \E domain \in DomainArgs, inj \in Injections :
         CreateZoneWith(domain, AnswerCreateZone(nextId, domain, inj))
    /\ changed' = FALSE
    /\ UNCHANGED <<zone, records, codecVars>>

\* DeleteZone::delete_zone.  The remote drops a zone with its records.
DeleteZoneWith(zone_id, resp) ==
    /\ Served(resp) => changes < MaxChanges
    /\ log' = <<Sent("delete_zone", <<zone_id>>, resp)>>
    /\ Return(Returned("delete_zone", <<zone_id>>, delete_zone(resp)))
    /\ IF Served(resp)
       THEN /\ zones' = WithoutId(zones, zone_id)
            /\ records' = SelectSeq(records,
                                   LAMBDA x : RecordAt(made, x).zone_id # zone_id)
            /\ changes' = changes + 1
       ELSE UNCHANGED <<zones, records, changes>>

DeleteZone ==
    /\ pc = "idle" /\ zone = None
    /\ \E zone_id \in ZoneIdArgs, inj \in Injections :
         DeleteZoneWith(zone_id, AnswerDelete(zones, zone_id, inj))
    /\ changed' = FALSE
    /\ UNCHANGED <<zone, made, nextId, codecVars>>

\* Zone::list_records up to its loop
ListRecordsStart ==
    /\ pc = "idle" /\ zone # None
    /\ pc' = "list_records"
    /\ call' = [op |-> "list_records", records |-> <<>>, total |-> None, page |-> 1]
    /\ log' = <<>>
    /\ changed' = FALSE
    /\ UNCHANGED <<result, zone, remoteVars, codecVars>>

\* The end of a turn of the loop of list_records: break, or page += 1.
ListRecordsTurnEnd(total, rs) ==
    IF ListDone(total, Len(rs))
    THEN Return(Returned("list_records", <<>>, Ok(rs)))
    ELSE /\ call' = [call EXCEPT !.records = rs, !.total = total,
                                 !.page = NextPage(call.page)]
         /\ UNCHANGED <<pc, result>>

\* The match of the loop of list_records.
ListRecordsMatch(r) ==
    IF IsOk(r)
    THEN ListRecordsTurnEnd(FirstTotal(call.total, r.val.total_entries),
                            call.records
                              \o [i \in DOMAIN r.val.records |->
                                    into_generic(r.val.records[i], zone.repr.ttl)])
    ELSE IF EndOfPages(r.err)
         THEN Return(Returned("list_records", <<>>, Ok(call.records)))
         ELSE Return(Returned("list_records", <<>>, r))

ListRecordsWith(resp) ==
    /\ log' = Append(log, Sent("retrieve_records",
                               <<zone.repr.id, call.page, RecordsPerPage>>, resp))
    /\ ListRecordsMatch(MapErr(api_retrieve_records(resp), ListRecordsError))

\* One turn of the loop of list_records.
ListRecordsPage ==
    /\ pc = "list_records"
    /\ call.page <= MaxPage
    /\ \E inj \in Injections :
         ListRecordsWith(AnswerRecords(made, records, zone.repr.id, call.page,
                                       RecordsPerPage, inj))
    /\ UNCHANGED <<zone, changed, remoteVars, codecVars>>

\* Zone::get_record
GetRecordWith(record_id, resp) ==
    /\ log' = <<Sent("retrieve_record", <<record_id>>, resp)>>
    /\ Return(Returned("get_record", <<record_id>>, get_record(zone, resp)))

GetRecord ==
    /\ pc = "idle" /\ zone # None
    /\ \E record_id \in RecordIdArgs, inj \in Injections :
         GetRecordWith(record_id, AnswerRecord(made, records, record_id, inj))
    /\ changed' = FALSE
    /\ UNCHANGED <<zone, remoteVars, codecVars>>

\* CreateRecord::create_record from its request on.
CreateRecordWith(args, body, resp) ==
    /\ Served(resp) => changes < MaxChanges
    /\ log' = <<Sent("create_record", <<body>>, resp)>>
    /\ Return(Returned("create_record", args, create_record(zone, resp)))
    /\ IF Served(resp)
       THEN /\ records' = Append(records, nextId)
            /\ made' = With(made, nextId, resp.body.record)
            /\ nextId' = nextId + 1
            /\ changes' = changes + 1
       ELSE UNCHANGED <<records, made, nextId, changes>>
    /\ UNCHANGED zones

CreateRecordSend(args, body) ==
    \E inj \in Injections :
      CreateRecordWith(args, body, AnswerCreateRecord(zones, nextId, body, inj))

\* CreateRecord::create_record
CreateRecord ==
    /\ pc = "idle" /\ zone # None
    /\ \E host \in HostArgs, data \in DataArgs, ttl \in TtlArgs :
         IF ~IsSupported(get_type(data))
         THEN /\ log' = <<>>
              /\ Return(Returned("create_record", <<host, data, ttl>>,
                                 Err(Known("UnsupportedType"))))
              /\ UNCHANGED remoteVars
         ELSE CreateRecordSend(<<host, data, ttl>>,
                               CreateRecordBody(zone.repr.id, host, get_type(data),
                                                get_value(data), OptTtl(ttl, zone)))
    /\ changed' = FALSE
    /\ UNCHANGED <<zone, codecVars>>

\* DeleteRecord::delete_record after its get_record: the ?.
DeleteRecordTry(record_id, r) ==
    IF ~IsOk(r)
    THEN Return(Returned("delete_record", <<record_id>>, r))
    ELSE /\ pc' = "delete_record"
         /\ call' = [op |-> "delete_record", record_id |-> record_id]
         /\ UNCHANGED result

DeleteRecordGetWith(record_id, resp) ==
    /\ log' = <<Sent("retrieve_record", <<record_id>>, resp)>>
    /\ DeleteRecordTry(record_id, MapErr(get_record(zone, resp), DeleteRecordGetError))

\* DeleteRecord::delete_record up to its second await: the get_record.
DeleteRecordGet ==
    /\ pc = "idle" /\ zone # None
    /\ \E record_id \in RecordIdArgs, inj \in Injections :
         DeleteRecordGetWith(record_id, AnswerRecord(made, records, record_id, inj))
    /\ changed' = FALSE
    /\ UNCHANGED <<zone, remoteVars, codecVars>>

DeleteRecordDeleteWith(resp) ==
    /\ Served(resp) => changes < MaxChanges
    /\ log' = Append(log, Sent("delete_record", <<call.record_id>>, resp))
    /\ Return(Returned("delete_record", <<call.record_id>>,
                       MapErr(api_delete_record(resp), DeleteRecordError)))
    /\ IF Served(resp)
       THEN /\ records' = WithoutId(records, call.record_id)
            /\ changes' = changes + 1
       ELSE UNCHANGED <<records, changes>>

\* DeleteRecord::delete_record from its second await: the delete request.
DeleteRecordDelete ==
    /\ pc = "delete_record"
    /\ \E inj \in Injections :
         DeleteRecordDeleteWith(AnswerDelete(records, call.record_id, inj))
    /\ UNCHANGED <<zone, changed, zones, made, nextId, codecVars>>

\* Another client adds a zone, or removes the first or the last one.
RemoteZoneChange ==
    /\ pc = "list_zones"
    /\ changes < MaxChanges
    /\ changes' = changes + 1
    /\ changed' = TRUE
    /\ \/ /\ zones' = Append(zones, nextId)
          /\ made' = With(made, nextId, ApiZone(nextId, "example.net"))
          /\ nextId' = nextId + 1
       \/ /\ zones # <<>>
          /\ \E i \in {1, Len(zones)} : zones' = WithoutId(zones, zones[i])
          /\ UNCHANGED <<made, nextId>>
    /\ UNCHANGED <<records, pc, call, log, result, zone, codecVars>>

\* Another client adds a record to the caller's zone, or removes the first
\* or the last record.
RemoteRecordChange ==
    /\ pc \in {"list_records", "delete_record"}
    /\ changes < MaxChanges
    /\ changes' = changes + 1
    /\ changed' = TRUE
    /\ \/ /\ records' = Append(records, nextId)
          /\ made' = With(made, nextId, SampleRecord(nextId, zone.repr.id))
          /\ nextId' = nextId + 1
       \/ /\ records # <<>>
          /\ \E i \in {1, Len(records)} : records' = WithoutId(records, records[i])
          /\ UNCHANGED <<made, nextId>>
    /\ UNCHANGED <<zones, pc, call, log, result, zone, codecVars>>

CodecOff ==
    /\ inTyp = ""
    /\ inValue = <<>>
    /\ parsed = None
    /\ wire = None
    /\ reparsed = None
    /\ codecPc = "off"

\* A caller on the provider of a remote with n zones.
ProviderInit(n) ==
    /\ zones = [i \in 1..n |-> i]
    /\ records = <<>>
    /\ nextId = n + 1
    /\ zone = None

\* A caller on the handle of zone 1, which holds n records; zone 2 holds
\* one more.
ZoneInit(n) ==
    /\ zones = <<1, 2>>
    /\ records = [i \in 1..(n + 1) |-> i]
    /\ nextId = n + 2
    /\ zone = HetznerZone(ZoneAt(<<>>, 1))

Init ==
    /\ \E n \in Counts : ProviderInit(n) \/ ZoneInit(n)
    /\ made = <<>>
    /\ changes = 0
    /\ pc = "idle"
    /\ call = NoCall
    /\ log = <<>>
    /\ result = Returned("none", <<>>, Ok(<<>>))
    /\ changed = FALSE
    /\ CodecOff

Next ==
    \/ GetZone
    \/ ListZonesStart
    \/ ListZonesPage
    \/ CreateZone
    \/ DeleteZone
    \/ ListRecordsStart
    \/ ListRecordsPage
    \/ GetRecord
    \/ CreateRecord
    \/ DeleteRecordGet
    \/ DeleteRecordDelete
    \/ RemoteZoneChange
    \/ RemoteRecordChange

Spec == Init /\ [][Next]_vars

(***************************************************************************)
(* The list calls past MaxPage.  The remote never holds more than          *)
(* MaxEntries + MaxChanges entries, fewer than MaxPage pages of them, so   *)
(* every page past MaxPage is beyond the end of the collection and the     *)
(* remote answers all of them alike.  The loop is followed there with the  *)
(* page number kept up to its parity, and the log keeps the first MaxPage  *)
(* requests and the last one.                                              *)
(***************************************************************************)

\* The match and the end of a turn of the loop of list_zones, past MaxPage.
ListZonesPastWith(r) ==
    IF IsOk(r) /\ ~ListDone(FirstTotal(call.total, r.val.total_entries),
                            Len(call.zones) + Len(r.val.zones))
    THEN /\ call' = [call EXCEPT
                       !.zones = call.zones
                                   \o [i \in DOMAIN r.val.zones |->
                                         HetznerZone(r.val.zones[i])],
                       !.total = FirstTotal(call.total, r.val.total_entries),
                       !.page = IF NextPage(call.page) > MaxPage + 2
                                THEN MaxPage + 1 ELSE NextPage(call.page)]
         /\ UNCHANGED <<pc, result>>
    ELSE ListZonesMatch(r)

\* One turn of the loop of list_zones, past MaxPage.
ListZonesPast ==
    /\ pc = "list_zones"
    /\ call.page > MaxPage
    /\ \E inj \in Injections :
         /\ log' = Append(SubSeq(log, 1, MaxPage),
                          Sent("retrieve_zones", <<call.page, ZonesPerPage>>,
                               AnswerZones(made, zones, call.page, ZonesPerPage, inj)))
         /\ ListZonesPastWith(
                MapErr(api_retrieve_zones(
                         AnswerZones(made, zones, call.page, ZonesPerPage, inj)),
                       ListZonesError))
    /\ UNCHANGED <<zone, changed, remoteVars, codecVars>>

\* The match and the end of a turn of the loop of list_records, past
\* MaxPage.
ListRecordsPastWith(r) ==
    IF IsOk(r) /\ ~ListDone(FirstTotal(call.total, r.val.total_entries),
                            Len(call.records) + Len(r.val.records))
    THEN /\ call' = [call EXCEPT
                       !.records = call.records
                                     \o [i \in DOMAIN r.val.records |->
                                           into_generic(r.val.records[i],
                                                        zone.repr.ttl)],
                       !.total = FirstTotal(call.total, r.val.total_entries),
                       !.page = IF NextPage(call.page) > MaxPage + 2
                                THEN MaxPage + 1 ELSE NextPage(call.page)]
         /\ UNCHANGED <<pc, result>>
    ELSE ListRecordsMatch(r)

\* One turn of the loop of list_records, past MaxPage.
ListRecordsPast ==
    /\ pc = "list_records"
    /\ call.page > MaxPage
    /\ \E inj \in Injections :
         /\ log' = Append(SubSeq(log, 1, MaxPage),
                          Sent("retrieve_records",
                               <<zone.repr.id, call.page, RecordsPerPage>>,
                               AnswerRecords(made, records, zone.repr.id, call.page,
                                             RecordsPerPage, inj)))
         /\ ListRecordsPastWith(
                MapErr(api_retrieve_records(
                         AnswerRecords(made, records, zone.repr.id, call.page,
                                       RecordsPerPage, inj)),
                       ListRecordsError))
    /\ UNCHANGED <<zone, changed, remoteVars, codecVars>>

\* The list calls alone, followed past MaxPage.
NextLoop ==
    \/ ListZonesStart
    \/ ListZonesPage
    \/ ListZonesPast
    \/ ListRecordsStart
    \/ ListRecordsPage
    \/ ListRecordsPast
    \/ RemoteZoneChange
    \/ RemoteRecordChange

\* The caller's future is polled until it is ready and the remote answers
\* every request: a turn of a loop that can be taken is taken.  Nothing
\* makes the caller start a call or another client change the remote.
SpecLoop ==
    /\ Init
    /\ [][NextLoop]_vars
    /\ WF_vars(ListZonesPage) /\ WF_vars(ListZonesPast)
    /\ WF_vars(ListRecordsPage) /\ WF_vars(ListRecordsPast)

(***************************************************************************)
(* PART 6.  The codec on its own: one raw pair through from_raw, back to   *)
(* the wire pair through get_type and get_value, and through from_raw      *)
(* again.                                                                  *)
(***************************************************************************)

\* The most tokens a generated value has.
MaxTokens == 5

\* The type tags from_raw knows, and one it does not.
KnownTypes == {"A", "AAAA", "CNAME", "MX", "NS", "SRV", "TXT"}
CodecTypes == KnownTypes \cup {"CAA"}

\* The tokens generated values are made of: a number, one past u16::MAX,
\* and a name.
Tokens == { <<"1", "0">>, <<"6", "5", "5", "3", "6">>, <<"a">> }

\* Tokens joined by single spaces.
RECURSIVE Join(_)
Join(toks) ==
    IF toks = <<>> THEN <<>>
    ELSE IF Len(toks) = 1 THEN toks[1]
    ELSE toks[1] \o <<" ">> \o Join(Tail(toks))

\* Values with a sign, zeros or other whitespace in them, and addresses in
\* their several forms.
OddValues ==
    { <<"+", "7", " ", "a">>,
      <<"0", "0", "7", " ", "a">>,
      <<"-", "1", " ", "a">>,
      <<" ", "1", "0", "\t", " ", "a", " ">>,
      <<"6", "5", "5", "3", "5", " ", "a">>,
      <<"1", ".", "2", ".", "3", ".", "4">>,
      <<"0", "1", ".", "2", ".", "3", ".", "4">>,
      <<"2", "5", "6", ".", "1", ".", "1", ".", "1">>,
      <<"1", ".", "2", ".", "3">>,
      <<":", ":", "1">>,
      <<":", ":">>,
      <<"1", ":", "2", ":", "3", ":", "4", ":", "5", ":", "6", ":", "7", ":", "8">>,
      <<"1", ":", "0", ":", "0", ":", "2", ":", "0", ":", "0", ":", "0", ":", "3">>,
      <<":", ":", "f", "f", "f", "f", ":", "1", ".", "2", ".", "3", ".", "4">>,
      <<":", ":", "1", ".", "2", ".", "3", ".", "4">>,
      <<"F", "E", "8", "0", ":", ":", "A">>,
      <<"1", ":", ":", "2", ":", ":", "3">>,
      <<"1", "2", "3", "4", "5", ":", ":">> }

CodecValues ==
    OddValues \cup {Join(toks) : toks \in UNION {[1..k -> Tokens] : k \in 0..MaxTokens}}

\* The binding at rest while the codec is followed.
BindingOff ==
    /\ zones = <<>>
    /\ records = <<>>
    /\ made = <<>>
    /\ nextId = 1
    /\ changes = 0
    /\ pc = "off"
    /\ call = NoCall
    /\ log = <<>>
    /\ result = Returned("none", <<>>, Ok(<<>>))
    /\ zone = None
    /\ changed = FALSE

CodecInit ==
    /\ inTyp \in CodecTypes
    /\ inValue \in CodecValues
    /\ parsed = None
    /\ wire = None
    /\ reparsed = None
    /\ codecPc = "raw"
    /\ BindingOff

\* RecordData::from_raw(typ, value)
FromRaw ==
    /\ codecPc = "raw"
    /\ parsed' = from_raw(inTyp, inValue)
    /\ codecPc' = "parsed"
    /\ UNCHANGED <<inTyp, inValue, wire, reparsed, remoteVars, callerVars>>

\* (x.get_type(), x.get_value())
ToWire ==
    /\ codecPc = "parsed"
    /\ wire' = [typ |-> get_type(parsed), value |-> get_value(parsed)]
    /\ codecPc' = "wire"
    /\ UNCHANGED <<inTyp, inValue, parsed, reparsed, remoteVars, callerVars>>

\* RecordData::from_raw(x.get_type(), x.get_value())
FromWire ==
    /\ codecPc = "wire"
    /\ reparsed' = from_raw(wire.typ, wire.value)
    /\ codecPc' = "reparsed"
    /\ UNCHANGED <<inTyp, inValue, parsed, wire, remoteVars, callerVars>>

CodecNext == FromRaw \/ ToWire \/ FromWire

SpecCodec == CodecInit /\ [][CodecNext]_vars

(***************************************************************************)
(* PART 7.  The properties                                                 *)
(***************************************************************************)

ListOps == {"list_zones", "list_records"}

\* The call op has returned and no other call has started since.
Returns(op) == pc = "idle" /\ result.op = op

\* Every request of the call got a response with status 200.
AllServed == \A i \in DOMAIN log : log[i].sent /\ log[i].status = 200

\* The status the call's last request was answered with; 0 when the call
\* sent none or the last one got no response.
LastStatus == IF log = <<>> THEN 0 ELSE log[Len(log)].status

\* The i-th request of a list call asked for page i in pages of a hundred.
FetchOf(entry, i) ==
    \/ entry.req = "retrieve_zones" /\ entry.args = <<i, 100>>
    \/ entry.req = "retrieve_records" /\ entry.args = <<zone.repr.id, i, 100>>

PagesInOrder == \A i \in DOMAIN log : FetchOf(log[i], i)

\* ceil(n / 100)
PagesFor(n) == (n + 99) \div 100

\* The remote's zones, as handles, in the remote's order.
AllZones == [i \in DOMAIN zones |-> HetznerZone(ZoneAt(made, zones[i]))]

\* The records of the caller's zone, in the remote's order.
Generic(ids) ==
    [i \in DOMAIN ids |-> into_generic(RecordAt(made, ids[i]), zone.repr.ttl)]

ZoneRecords == Generic(RecordsOf(made, records, zone.repr.id))

Listed(all) ==
    /\ all # <<>>
         => /\ Len(log) = PagesFor(Len(all))
            /\ result.res = Ok(all)

\* C1: over a remote that serves every fetch and whose collection of N > 0
\* entries does not change during the call, list_zones and list_records
\* fetch pages 1, 2, ..., ceil(N/100) in that order and return Ok with the N
\* items in the remote's order.
C1_Pagination ==
    /\ (pc \in ListOps \/ (pc = "idle" /\ result.op \in ListOps)) => PagesInOrder
    /\ (Returns("list_zones") /\ ~changed /\ AllServed) => Listed(AllZones)
    /\ (Returns("list_records") /\ ~changed /\ AllServed) => Listed(ZoneRecords)

\* list_records has returned more than two pages' worth of records, all of
\* the zone's, after three served fetches.
C1_Witness ==
    /\ Returns("list_records") /\ ~changed /\ AllServed
    /\ Len(log) = 3
    /\ IsOk(result.res)
    /\ Len(result.res.val) > 2 * RecordsPerPage
    /\ Len(result.res.val) = Len(RecordsOf(made, records, zone.repr.id))

\* C2: a list call whose fetch of page k was answered with HTTP 404 returns
\* Ok with what pages 1..k-1 gave, the empty sequence when k = 1, and sends
\* nothing more.
C2_NotFoundEndsList ==
    (pc = "idle" /\ result.op \in ListOps /\ LastStatus = 404)
      => /\ IsOk(result.res)
         /\ Len(log) = 1 => result.res = Ok(<<>>)

\* C3: a call whose request is answered with HTTP 401 returns Unauthorized;
\* get_zone and get_record answered with 404 return NotFound; a call
\* answered with 500 returns Custom.
C3_StatusMapping ==
    (pc = "idle" /\ result.op # "none")
      => /\ LastStatus = 401 => result.res = Err(Known("Unauthorized"))
         /\ (LastStatus = 404 /\ result.op \in {"get_zone", "get_record"})
              => result.res = Err(Known("NotFound"))
         /\ LastStatus = 500 => (~IsOk(result.res) /\ result.res.err.name = "Custom")

\* C4: create_record with data whose type string is not a supported record
\* type returns UnsupportedType and sends no request.
C4_UnsupportedType ==
    (Returns("create_record")
       /\ get_type(result.args[2]) \notin SUPPORTED_RECORD_TYPES)
      => /\ result.res = Err(Known("UnsupportedType"))
         /\ log = <<>>

\* create_record has rejected a URI record.
C4_Witness ==
    /\ Returns("create_record")
    /\ result.args[2] = Other("URI", <<"x">>)
    /\ result.res = Err(Known("UnsupportedType"))
    /\ log = <<>>

\* C5: get_record and delete_record for a record the remote holds in
\* another zone than the handle's return NotFound, send no delete request,
\* and leave the record at the remote.
C5_ForeignRecord ==
    (/\ pc = "idle" /\ result.op \in {"get_record", "delete_record"}
     /\ log # <<>> /\ log[1].sent /\ log[1].status = 200
     /\ RecordAt(made, result.args[1]).zone_id # zone.repr.id)
      => /\ result.res = Err(Known("NotFound"))
         /\ Len(log) = 1
         /\ HasId(records, result.args[1])

\* delete_record has refused record 1, which zone 2 holds.
C5_Witness ==
    /\ Returns("delete_record")
    /\ result.args = <<1>>
    /\ RecordAt(made, 1).zone_id = 2 /\ zone.repr.id = 1
    /\ log # <<>> /\ log[1].sent /\ log[1].status = 200
    /\ result.res = Err(Known("NotFound"))
    /\ HasId(records, 1)

Emptied(all) == all = <<>> => (result.res = Ok(<<>>) /\ Len(log) = 1)

\* C6: over a remote that serves the fetch and holds nothing to list,
\* list_zones and list_records return Ok with the empty sequence after one
\* fetch; and NotFound comes only from the calls that name one ID.
C6_EmptyList ==
    /\ (Returns("list_zones") /\ ~changed /\ AllServed /\ log # <<>>)
         => Emptied(zones)
    /\ (Returns("list_records") /\ ~changed /\ AllServed /\ log # <<>>)
         => Emptied(RecordsOf(made, records, zone.repr.id))
    /\ (pc = "list_zones" /\ ~changed /\ zones = <<>>) => log = <<>>
    /\ (pc = "list_records" /\ ~changed
          /\ RecordsOf(made, records, zone.repr.id) = <<>>) => log = <<>>
    /\ (pc = "idle" /\ result.res = Err(Known("NotFound")))
         => result.op \in {"get_zone", "delete_zone", "get_record", "delete_record"}

\* list_zones has returned the empty sequence after one served fetch.
C6_Witness ==
    /\ Returns("list_zones") /\ ~changed /\ AllServed
    /\ zones = <<>>
    /\ Len(log) = 1
    /\ result.res = Ok(<<>>)

\* C7: for x = from_raw(typ, value) with typ one of A, AAAA, CNAME, MX, NS,
\* SRV, TXT, from_raw(get_type(x), get_value(x)) = x; and an x that is Other
\* carries typ and value as given.
C7_RoundTrip ==
    codecPc = "reparsed"
      => /\ inTyp \in KnownTypes => reparsed = parsed
         /\ parsed.tag = "Other" => parsed = Other(inTyp, inValue)

\* The value is exactly n tokens, all but the last of them u16 numbers.
ExactShape(toks, n) ==
    /\ Len(toks) = n
    /\ \A i \in 1..(n - 1) : ParseU16(toks[i]).ok

OnlyShape(tag, n) ==
    inTyp = tag
      => IF ExactShape(SplitWhitespace(inValue), n)
         THEN parsed.tag = tag
         ELSE parsed = Other(inTyp, inValue)

\* C8: from_raw("MX", v) is MX only for a v of exactly two tokens, the first
\* a u16, and from_raw("SRV", v) is SRV only for a v of exactly four tokens,
\* the first three u16s; any other v gives Other with typ and v as given.
C8_ExactTokens ==
    codecPc # "raw" => (OnlyShape("MX", 2) /\ OnlyShape("SRV", 4))

\* C9: a call whose request is answered with HTTP 403 returns Unauthorized.
C9_ForbiddenIsUnauthorized ==
    (pc = "idle" /\ result.op # "none" /\ LastStatus = 403)
      => result.res = Err(Known("Unauthorized"))

\* C10: delete_zone answered with HTTP 404 returns NotFound, and it returns
\* Ok only when the remote accepted the deletion.
C10_DeleteZoneNotFound ==
    Returns("delete_zone")
      => /\ LastStatus = 404 => result.res = Err(Known("NotFound"))
         /\ IsOk(result.res) => LastStatus = 200

\* The TTL of rec is the one its wire record w carries, or the zone
\* snapshot's when w carries none.
Resolved(rec, w) ==
    rec.ttl = IF w.ttl.ok THEN w.ttl.val ELSE zone.repr.ttl

ResolvedAll(recs) ==
    \A i \in DOMAIN recs : Resolved(recs[i], RecordAt(made, recs[i].id))

\* C11: every Record that list_records, get_record or create_record gives
\* back on a zone handle has the TTL of its wire record when that carries
\* one, and the TTL of the handle's zone snapshot when it carries none.
C11_ResolvedTtl ==
    /\ pc = "list_records" => ResolvedAll(call.records)
    /\ (Returns("list_records") /\ IsOk(result.res)) => ResolvedAll(result.res.val)
    /\ (Returns("get_record") /\ IsOk(result.res)) => ResolvedAll(<<result.res.val>>)
    /\ (Returns("create_record") /\ IsOk(result.res)) => ResolvedAll(<<result.res.val>>)

\* list_records has returned a record with a TTL of its own, 120, and next
\* to it one whose wire record has none and that got the zone's.
C11_Witness ==
    /\ Returns("list_records") /\ IsOk(result.res)
    /\ Len(result.res.val) >= 2
    /\ RecordAt(made, result.res.val[1].id).ttl = Some(120)
    /\ result.res.val[1].ttl = 120
    /\ RecordAt(made, result.res.val[2].id).ttl = None
    /\ result.res.val[2].ttl = zone.repr.ttl

\* The body create_record is to post for these arguments on the caller's
\* zone handle.
BodyFor(host, data, ttl) ==
    [zone_id |-> zone.repr.id, name |-> host,
     type |-> get_type(data), value |-> get_value(data),
     ttl |-> IF ttl = zone.repr.ttl THEN None ELSE Some(NatToStr(ttl, 10))]

\* C12: for a supported record type create_record sends one request, a
\* create request, whose body has zone_id, name, type and value equal to the
\* zone's id, the host argument, get_type() and get_value() of the data,
\* has no ttl when the ttl argument is the zone's default, and has the
\* argument (in decimal digits) as its ttl when it is not.
C12_CreateBody ==
    (Returns("create_record") /\ IsSupported(get_type(result.args[2])))
      => /\ Len(log) = 1
         /\ log[1].req = "create_record"
         /\ log[1].args = <<BodyFor(result.args[1], result.args[2], result.args[3])>>

\* create_record has sent an MX record with the zone's default TTL, in a
\* body without ttl, and the remote has stored it.
C12_Witness ==
    /\ Returns("create_record") /\ IsOk(result.res)
    /\ result.args[2].tag = "MX"
    /\ result.args[3] = zone.repr.ttl
    /\ Len(log) = 1
    /\ log[1].args[1].ttl = None
    /\ log[1].args[1].type = "MX"
    /\ log[1].args[1].value = <<"1", "0", " ", "m">>

\* The request got a response with status 200.
ServedEntry(entry) == entry.sent /\ entry.status = 200

\* What the client makes of a fetch that was not served: a request error
\* without a response, a decode error with one, either one in Custom.
FetchError(entry) ==
    Err(Custom(IF entry.sent THEN DecodeError ELSE RequestError))

\* C13: when a page fetch of list_zones or list_records fails with an error
\* other than NotFound, at any page k >= 1, the call returns that error at
\* once: the failed fetch is the call's last one, and the caller gets the
\* error and none of the items of pages 1..k-1.
C13_ErrorReturned ==
    /\ pc \in ListOps => AllServed
    /\ (pc = "idle" /\ result.op \in ListOps /\ ~AllServed)
         => /\ \A i \in 1..(Len(log) - 1) : ServedEntry(log[i])
            /\ ~IsOk(result.res)
            /\ ~EndOfPages(result.res.err)
            /\ result.res = FetchError(log[Len(log)])

\* list_records got two full pages, then a 500 for page 3, and returned the
\* error.
C13_Witness ==
    /\ Returns("list_records")
    /\ Len(log) = 3
    /\ ServedEntry(log[1]) /\ ServedEntry(log[2])
    /\ log[3].status = 500
    /\ result.res = Err(Custom(DecodeError))

\* The request is a get of one record that the remote served with a record
\* of the caller's zone: the get_record that sent it returned Ok.
GotOwnRecord(entry) ==
    /\ entry.req = "retrieve_record"
    /\ ServedEntry(entry)
    /\ RecordAt(made, entry.args[1]).zone_id = zone.repr.id

\* What get_record makes of the request it sent when it does not return Ok:
\* NotFound for a record of another zone, the client's error otherwise.
GetRecordFailure(entry) ==
    IF ServedEntry(entry) THEN Err(Known("NotFound")) ELSE FetchError(entry)

\* C14: delete_record sends the delete request only after its get_record
\* for the same record ID has returned Ok; when the get_record fails,
\* delete_record returns the failure's kind (NotFound, or Custom with the
\* same error) and sends no delete request.
C14_DeleteAfterGet ==
    /\ \A i \in DOMAIN log :
         log[i].req = "delete_record"
           => /\ i = 2
              /\ GotOwnRecord(log[1])
              /\ log[1].args = log[2].args
    /\ pc = "delete_record"
         => /\ Len(log) = 1
            /\ GotOwnRecord(log[1])
            /\ log[1].args = <<call.record_id>>
    /\ Returns("delete_record")
         => /\ Len(log) \in {1, 2}
            /\ log[1].req = "retrieve_record"
            /\ log[1].args = result.args
            /\ Len(log) = 1
                 => /\ ~GotOwnRecord(log[1])
                    /\ result.res = GetRecordFailure(log[1])

\* delete_record has got record 2 of its zone, then sent the delete, which
\* the remote served.
C14_Witness ==
    /\ Returns("delete_record") /\ IsOk(result.res)
    /\ Len(log) = 2
    /\ log[1].req = "retrieve_record" /\ log[1].args = <<2>>
    /\ log[2].req = "delete_record" /\ log[2].args = <<2>>
    /\ ServedEntry(log[2])
    /\ ~HasId(records, 2)

\* How many entries the collection the call lists has at the remote now.
Listable ==
    IF pc = "list_zones" THEN Len(zones)
    ELSE Len(RecordsOf(made, records, zone.repr.id))

\* The requests of a list call, in flight or returned: the n-th asks for
\* page n in pages of 100, and only the last one can have failed.  In
\* flight, the next page to ask for is the one after the last asked, and
\* the total is known from the first served page on.
FetchesInSequence ==
    /\ (pc \in ListOps \/ (pc = "idle" /\ result.op \in ListOps))
         => /\ \A i \in DOMAIN log : FetchOf(log[i], i)
            /\ \A i \in 1..(Len(log) - 1) : ServedEntry(log[i])
    /\ pc \in ListOps
         => /\ AllServed
            /\ call.page = Len(log) + 1
            /\ call.total.ok <=> log # <<>>

\* A step that leaves a list call in flight: it is one fetch, of the page
\* the call was to ask for, or no fetch at all; it sets the total from the
\* remote's count when there was none, and leaves a known total alone.
OneFetchKeepsTotal ==
    (pc \in ListOps /\ pc' = pc)
      => /\ log' = log => call' = call
         /\ log' # log
              => /\ Len(log') = Len(log) + 1
                 /\ SubSeq(log', 1, Len(log)) = log
                 /\ FetchOf(log'[Len(log')], call.page)
                 /\ call'.page = call.page + 1
         /\ call.total.ok => call'.total = call.total
         /\ (~call.total.ok /\ log' # log) => call'.total = Some(Listable)

\* C15: within one list_zones or list_records call the page fetches come
\* one after the other: the n-th fetch asks for page n with page size 100,
\* no page is asked for twice, a failed fetch is the last one, and the
\* expected total is the one of the first served page, whatever later pages
\* report.
C15_Sequential == []FetchesInSequence /\ [][OneFetchKeepsTotal]_vars

\* list_zones has fetched three pages of a remote that had 250 zones at the
\* first fetch and lost one before the third: it still expects 250.
C15_Witness ==
    /\ pc = "list_zones" /\ changed
    /\ Len(log) = 3
    /\ Len(zones) = 249
    /\ Len(call.zones) = 249
    /\ call.total = Some(250)

\* C16: every list_zones and list_records call returns, Ok or Err, over a
\* remote that answers every page request, also when the collection grows
\* or shrinks between two fetches and the pages past its end are served
\* empty.
C16_ListReturns == (pc \in ListOps) ~> (pc = "idle")

=============================================================================
